---- MODULE Spec2Model ----
(***************************************************************************)
(* The in-memory project store of DevMasters-Inc: src/app/database.py      *)
(* (class Database) with the pydantic models of src/app/models/project.py, *)
(* run by several threads.  Every thread executes one store operation at a *)
(* time; an operation is split into steps at the points where the          *)
(* interpreter can switch threads and another thread can observe or change *)
(* the shared dictionaries.                                                *)
(***************************************************************************)
EXTENDS Integers, Sequences, FiniteSets, TLC

(***************************************************************************)
(* Bounds of the model.                                                    *)
(***************************************************************************)
MaxClock == 1
MaxOps == 3
MaxTotal == 26
MaxSize == 11
MaxPage == 99

(* Field(min_length=..., max_length=...) of title and description *)
MinTitleLen == 3
MaxTitleLen == 100
MinDescLen == 10
MaxDescLen == 2000

Threads == {"t1", "t2"}
NoThread == "none"

(***************************************************************************)
(* Strings are sequences of one-character strings.  None is a value of its *)
(* own for every type: a one-element sequence that holds no character for  *)
(* strings, 0 for the priority, "None" for the status.                     *)
(***************************************************************************)
NoneStr == <<"None">>
NonePriority == 0
NoneStatus == "None"

UpperChars == {"A", "B", "C", "X", "Y", "P", "I"}
LowerChars == {"a", "b", "c", "x", "y", "p", "i", "s", "d", "o", "n", "e"}
SpaceChars == {" "}
ControlChars == {"\n"}

(* str.lower() on one character *)
LowerChar(c) ==
    CASE c = "A" -> "a"
      [] c = "B" -> "b"
      [] c = "C" -> "c"
      [] c = "X" -> "x"
      [] c = "Y" -> "y"
      [] c = "P" -> "p"
      [] c = "I" -> "i"
      [] OTHER -> c

(* str.lower() *)
Lower(s) == [i \in 1..Len(s) |-> LowerChar(s[i])]

(* \w of the regular expressions: alphanumerics and underscore *)
IsWordChar(c) == c \in UpperChars \cup LowerChars \cup {"_"}

(* re.sub(r'[^\w\s-]', '', v) *)
StripSpecial(s) ==
    SelectSeq(s, LAMBDA c : IsWordChar(c) \/ c \in SpaceChars \/ c \in ControlChars
                            \/ c = "-")

IsSpace(c) == c \in SpaceChars \cup ControlChars

RECURSIVE SplitWords(_, _, _)
(* v.split(): the maximal runs of non-whitespace characters of s *)
SplitWords(s, cur, acc) ==
    IF s = <<>>
    THEN IF cur = <<>> THEN acc ELSE Append(acc, cur)
    ELSE IF IsSpace(Head(s))
         THEN SplitWords(Tail(s), <<>>, IF cur = <<>> THEN acc ELSE Append(acc, cur))
         ELSE SplitWords(Tail(s), Append(cur, Head(s)), acc)

RECURSIVE JoinWords(_)
(* ' '.join(words) *)
JoinWords(ws) ==
    IF ws = <<>> THEN <<>>
    ELSE IF Len(ws) = 1 THEN ws[1]
    ELSE ws[1] \o <<" ">> \o JoinWords(Tail(ws))

(* ProjectBase.validate_title / ProjectUpdate.validate_title, before the   *)
(* emptiness test                                                          *)
SanitizeTitle(v) == JoinWords(SplitWords(StripSpecial(v), <<>>, <<>>))

(* re.sub(r'[\x00-\x1F\x7F]', '', v) *)
SanitizeDescription(v) == SelectSeq(v, LAMBDA c : c \notin ControlChars)

(* the str constraints of Field(min_length, max_length) *)
TitleLenOk(v) == Len(v) >= MinTitleLen /\ Len(v) <= MaxTitleLen
DescLenOk(v) == Len(v) >= MinDescLen /\ Len(v) <= MaxDescLen


(***************************************************************************)
(* ProjectPriority, ProjectStatus                                          *)
(***************************************************************************)
HIGH == 1
MEDIUM == 2
LOW == 3
Priorities == {HIGH, MEDIUM, LOW}

PLANNED == "Planejado"
IN_PROGRESS == "Em Andamento"
COMPLETED == "Concluido"
CANCELLED == "Cancelado"
Statuses == {PLANNED, IN_PROGRESS, COMPLETED, CANCELLED}

(* a transition table that lets a project in progress be planned again *)
get_valid_transitions_back(current_status) ==
    CASE current_status = PLANNED -> {IN_PROGRESS, CANCELLED}
      [] current_status = IN_PROGRESS -> {PLANNED, COMPLETED, CANCELLED}
      [] OTHER -> {}

(* ProjectStatus.get_valid_transitions: transitions.get(current_status, []) *)
get_valid_transitions(current_status) ==
    CASE current_status = PLANNED -> {IN_PROGRESS, CANCELLED}
      [] current_status = IN_PROGRESS -> {COMPLETED, CANCELLED}
      [] current_status = COMPLETED -> {}
      [] current_status = CANCELLED -> {}
      [] OTHER -> {}

Fields == <<"title", "description", "priority", "status">>
FieldSet == {"title", "description", "priority", "status"}

(***************************************************************************)
(* Request bodies.  A body is the set of keys it supplies and their        *)
(* values; a key that is not supplied carries the None of its type.        *)
(***************************************************************************)
Body(keys, title, description, priority, status) ==
    [keys |-> keys, title |-> title, description |-> description,
     priority |-> priority, status |-> status]

NoBody == Body({}, NoneStr, NoneStr, NonePriority, NoneStatus)

FieldOf(b, f) ==
    CASE f = "title" -> b.title
      [] f = "description" -> b.description
      [] f = "priority" -> b.priority
      [] f = "status" -> b.status

(* ProjectCreate.model_validate(body): the field constraints, then the validators.      *)
(* status takes its default when the body does not supply it.              *)
ProjectCreateValid(b) ==
    /\ {"title", "description", "priority"} \subseteq b.keys
    /\ b.title # NoneStr /\ TitleLenOk(b.title)
    /\ SanitizeTitle(b.title) # <<>>
    /\ b.description # NoneStr /\ DescLenOk(b.description)
    /\ b.priority \in Priorities
    /\ ("status" \in b.keys => b.status \in Statuses)

ProjectCreate(b) ==
    Body(FieldSet, SanitizeTitle(b.title), SanitizeDescription(b.description),
         b.priority, IF "status" \in b.keys THEN b.status ELSE PLANNED)

(* ProjectUpdate.model_validate(body): every field is Optional, an explicit null is     *)
(* accepted and stays set; keys that are no field of the model (id,        *)
(* created_at) are dropped, the model has no extra="forbid".               *)
ProjectUpdateValid(b) ==
    /\ ("title" \in b.keys /\ b.title # NoneStr =>
            TitleLenOk(b.title) /\ SanitizeTitle(b.title) # <<>>)
    /\ ("description" \in b.keys /\ b.description # NoneStr => DescLenOk(b.description))
    /\ ("priority" \in b.keys /\ b.priority # NonePriority => b.priority \in Priorities)
    /\ ("status" \in b.keys /\ b.status # NoneStatus => b.status \in Statuses)

ProjectUpdate(b) ==
    Body(b.keys \cap FieldSet,
         IF "title" \in b.keys /\ b.title # NoneStr THEN SanitizeTitle(b.title) ELSE NoneStr,
         IF "description" \in b.keys /\ b.description # NoneStr
         THEN SanitizeDescription(b.description) ELSE NoneStr,
         IF "priority" \in b.keys THEN b.priority ELSE NonePriority,
         IF "status" \in b.keys THEN b.status ELSE NoneStatus)

(* model_dump() without exclude_unset: every field, set or not *)
model_dump_all(b) == Fields

(* project.model_dump(exclude_unset=True): the fields that were set, in    *)
(* the order the model declares them                                       *)
model_dump(b) == SelectSeq(Fields, LAMBDA f : f \in b.keys)

(* Project(id=..., created_at=..., updated_at=..., data...): the            *)
(* constructor validates the fields of ProjectBase again                   *)
ProjectValid(data, created_at, updated_at, clock) ==
    /\ data.title # NoneStr /\ TitleLenOk(data.title)
    /\ SanitizeTitle(data.title) # <<>>
    /\ data.description # NoneStr /\ DescLenOk(data.description)
    /\ data.priority \in Priorities
    /\ data.status \in Statuses
    /\ ~(updated_at < created_at)
    /\ ~(updated_at > clock)

Project(id, data, created_at, updated_at) ==
    [id |-> id, title |-> SanitizeTitle(data.title),
     description |-> SanitizeDescription(data.description),
     priority |-> data.priority, status |-> data.status,
     created_at |-> created_at, updated_at |-> updated_at]

(* a setattr that moves created_at along with updated_at *)
SetAttrTouch(p, f, v) ==
    CASE f = "title" -> [p EXCEPT !.title = v]
      [] f = "description" -> [p EXCEPT !.description = v]
      [] f = "priority" -> [p EXCEPT !.priority = v]
      [] f = "status" -> [p EXCEPT !.status = v]
      [] f = "updated_at" -> [p EXCEPT !.updated_at = v, !.created_at = v]

(* setattr(db_project, field, value) *)
SetAttr(p, f, v) ==
    CASE f = "title" -> [p EXCEPT !.title = v]
      [] f = "description" -> [p EXCEPT !.description = v]
      [] f = "priority" -> [p EXCEPT !.priority = v]
      [] f = "status" -> [p EXCEPT !.status = v]
      [] f = "updated_at" -> [p EXCEPT !.updated_at = v]


(***************************************************************************)
(* Inputs of the operations.                                               *)
(***************************************************************************)
TitleAbc == <<"a", "b", "c">>
TitleABC == <<"A", "B", "C">>
TitleXY == <<"x", " ", " ", "y">>
TitleShort == <<"a", "!", "!">>
TitleBad == <<"!", "!", "!">>
TitleApi == <<"a", "p", "i">>
DescApi == <<"a", "n", " ", "a", "p", "i", " ", "s", "p", "e", "c">>
DescCode == <<"c", "o", "d", "e", " ", "i", "s", " ", "d", "o", "n", "e">>
DescCtl == <<"\n", "a", "n", " ", "a", "p", "i", " ", "s", "p">>

(* Every behaviour draws its requests from one family of inputs.          *)
Workloads == {"titles", "status", "fields", "locks", "readers", "nulls"}

CreateBodies(w) ==
    { Body({"title", "description", "priority"}, ti, DescApi, MEDIUM, NoneStatus) :
        ti \in CASE w = "titles" -> {TitleAbc, TitleABC, TitleXY, TitleShort, TitleBad}
                 [] w = "status" -> {TitleAbc, TitleBad}
                 [] w = "fields" -> {TitleAbc, TitleBad}
                 [] w = "locks" -> {TitleXY, TitleBad}
                 [] w = "readers" -> {TitleXY, TitleBad}
                 [] w = "nulls" -> {TitleAbc, TitleABC, TitleShort} }
    \cup CASE w = "titles" -> {}
           [] w = "status" -> { Body(FieldSet, TitleXY, DescApi, HIGH, IN_PROGRESS) }
           [] w = "fields" -> { Body(FieldSet, TitleXY, DescCtl, HIGH, IN_PROGRESS) }
           [] w = "locks" -> {}
           [] w = "readers" -> {}
           [] w = "nulls" -> {}

UpdateBodies(w) ==
    CASE w = "titles" ->
            { Body({"title"}, ti, NoneStr, NonePriority, NoneStatus) :
                ti \in {TitleAbc, TitleABC, TitleShort} }
      [] w = "status" ->
            { Body({"status"}, NoneStr, NoneStr, NonePriority, st) : st \in Statuses }
            \cup { Body({"title", "priority", "status"}, TitleXY, NoneStr, LOW, IN_PROGRESS) }
      [] w = "fields" ->
            { Body({"description"}, NoneStr, DescCode, NonePriority, NoneStatus),
              Body({"description", "id"}, NoneStr, DescCode, NonePriority, NoneStatus),
              Body({"priority", "created_at"}, NoneStr, NoneStr, HIGH, NoneStatus),
              Body({"title", "priority", "status"}, TitleXY, NoneStr, LOW, IN_PROGRESS) }
      [] w = "locks" ->
            { Body({"title"}, TitleABC, NoneStr, NonePriority, NoneStatus) }
      [] w = "readers" ->
            { Body({"status"}, NoneStr, NoneStr, NonePriority, IN_PROGRESS),
              Body({"title", "description"}, TitleApi, DescCode, NonePriority, NoneStatus) }
      [] w = "nulls" ->
            { Body({f}, NoneStr, NoneStr, NonePriority, NoneStatus) : f \in FieldSet }
            \cup { Body({"title"}, TitleBad, NoneStr, NonePriority, NoneStatus) }

TargetIds == {1, 2}

(***************************************************************************)
(* State.                                                                  *)
(***************************************************************************)
VARIABLES
    projects,       \* the keys of self.projects
    heap,           \* the Project objects ever constructed, by id
    counter,        \* self._counter
    lock,           \* the thread that holds self._lock
    project_locks,  \* self._project_locks: id -> lock object
    holders,        \* the holder of every lock object ever created
    now,            \* the clock datetime.now() reads
    pc,             \* where each thread is in its operation
    req,            \* the operation a thread runs and its arguments
    frame,          \* the local variables of the operation
    res,            \* what the operation returned or raised
    wrote,          \* the operation has changed the store
    nops,           \* operations started so far
    deleted,        \* the ids whose delete has returned
    wl,             \* the family of inputs of this behaviour
    pgIn,           \* arguments of a stand-alone call of get_projects
    pgOut           \* and its result

vars == <<projects, heap, counter, lock, project_locks, holders, now, pc, req, frame,
          res, wrote, nops, deleted, wl, pgIn, pgOut>>

store == <<projects, heap, counter>>
locks == <<lock, project_locks, holders>>
pgVars == <<wl, pgIn, pgOut>>
rest == <<deleted, wl, pgIn, pgOut>>

NoReq == [kind |-> "none", id |-> 0, body |-> NoBody, raw |-> NoBody,
          page |-> 0, size |-> 0, search |-> <<>>]
NoProject == [id |-> 0, title |-> NoneStr, description |-> NoneStr,
              priority |-> NonePriority, status |-> NoneStatus,
              created_at |-> 0, updated_at |-> 0]
NoFrame == [lk |-> 0, size |-> 0, last |-> 0, ref |-> 0, todo |-> <<>>,
            filtered |-> <<>>, hit |-> {}, cur |-> NoneStatus, pre |-> NoProject, dead |-> FALSE,
            seen |-> "unchecked", cmp |-> {}, views |-> {}, heaps |-> {}]
NoRes == [status |-> "none", id |-> 0, items |-> <<>>, total |-> 0, page |-> 0,
          pages |-> 0]

Raise(kind) == [NoRes EXCEPT !.status = kind]
Return(id) == [NoRes EXCEPT !.status = "ok", !.id = id]
Errors == {"NotFound", "DuplicateTitle", "InvalidStatusTransition", "Fault"}

Min(S) == CHOOSE x \in S : \A y \in S : x <= y

InitCore ==
    /\ lock = NoThread
    /\ project_locks = <<>>
    /\ holders = <<>>
    /\ now = 0
    /\ pc = [t \in Threads |-> "idle"]
    /\ req = [t \in Threads |-> NoReq]
    /\ frame = [t \in Threads |-> NoFrame]
    /\ res = [t \in Threads |-> NoRes]
    /\ wrote = [t \in Threads |-> FALSE]
    /\ nops = 0
    /\ deleted = {}
    /\ pgOut = NoRes

NoPage == [total |-> 0, page |-> 0, size |-> 0]

(* the store as Database() makes it *)
Empty == projects = {} /\ heap = <<>> /\ counter = 0

(* the store after its first create has returned at time 0 *)
Seeded ==
    /\ projects = {1}
    /\ heap = (1 :> Project(1, ProjectCreate(Body({"title", "description", "priority"},
                                                 TitleAbc, DescApi, MEDIUM, NoneStatus)),
                            0, 0))
    /\ counter = 1

InitStore(w) ==
    /\ InitCore /\ wl = w /\ pgIn = NoPage
    /\ IF w \in {"locks", "readers"} THEN Seeded ELSE Empty
Init == \E w \in Workloads : InitStore(w)

(* a stand-alone call of get_projects on a list of `total` matches *)
PageInputs == [total : 0..MaxTotal, page : (0 - 2)..MaxPage, size : 1..MaxSize]
InitPage == InitCore /\ Empty /\ wl = "page" /\ pgIn \in PageInputs

(* what `project_id not in self.projects` finds *)
Seen(id) == IF id \in projects THEN "live" ELSE "absent"

(* datetime.now(): the clock never runs backwards *)
Clock == {n \in {now, now + 1} : n <= MaxClock}

(* a thread starts an operation: its locals are fresh *)
Begin(t, r, dead) ==
    /\ pc[t] = "idle"
    /\ nops < MaxOps
    /\ nops' = nops + 1
    /\ req' = [req EXCEPT ![t] = r]
    /\ frame' = [frame EXCEPT ![t] = [NoFrame EXCEPT !.dead = dead]]
    /\ wrote' = [wrote EXCEPT ![t] = FALSE]
    /\ res' = [res EXCEPT ![t] = NoRes]

(* the dictionary becomes S: every update that will scan it, or scans it,  *)
(* has one more live set behind it                                         *)
Watched(S) ==
    [u \in Threads |->
        IF pc[u] \in {"u_load", "u_iter", "u_scan"} /\ "title" \in req[u].body.keys
        THEN [frame[u] EXCEPT !.views = @ \cup {S}]
        ELSE frame[u]]

(* the records become h: every list that is filtering has one more state  *)
(* of the records behind it                                                *)
WatchedHeap(h) ==
    [u \in Threads |->
        IF pc[u] = "l_filter" THEN [frame[u] EXCEPT !.heaps = @ \cup {h}] ELSE frame[u]]

(* the operation ends: its result is r, and the thread is free for the     *)
(* next request; req, frame and res keep what the operation left           *)
End(t, r) ==
    /\ pc' = [pc EXCEPT ![t] = "idle"]
    /\ res' = [res EXCEPT ![t] = r]

(***************************************************************************)
(* _validate_title_unique: one turn of the loop over                       *)
(* self.projects.values().  The iterator remembers the size of the         *)
(* dictionary when it was made and the last key it gave; next() raises     *)
(* RuntimeError when the size has changed.                                 *)
(***************************************************************************)
IterRest(f) == {i \in projects : i > f.last}

ScanOutcome(f, title, exclude_id) ==
    IF Cardinality(projects) # f.size THEN "Fault"
    ELSE IF IterRest(f) = {} THEN "exhausted"
    ELSE LET project == heap[Min(IterRest(f))] IN
         IF project.title = NoneStr \/ title = NoneStr THEN "Fault"
         ELSE IF Lower(project.title) = Lower(title) /\ project.id # exclude_id
              THEN "DuplicateTitle"
              ELSE "next"


(***************************************************************************)
(* POST /projects: the request body is validated as a ProjectCreate, then  *)
(* Database.create_project runs.                                           *)
(***************************************************************************)
StartCreate(t) ==
    \E b \in CreateBodies(wl) :
        /\ Begin(t, [NoReq EXCEPT !.kind = "create", !.raw = b,
                                   !.body = IF ProjectCreateValid(b)
                                            THEN ProjectCreate(b) ELSE NoBody], FALSE)
        /\ IF ProjectCreateValid(b)
           THEN pc' = [pc EXCEPT ![t] = "c_lock"]
           ELSE pc' = [pc EXCEPT ![t] = "rejected"]
        /\ UNCHANGED <<store, locks, now, rest>>

(* the request never reaches the store: 422 *)
Reject(t) ==
    /\ pc[t] = "rejected"
    /\ End(t, Raise("ValidationError"))
    /\ UNCHANGED <<store, locks, now, req, frame, wrote, nops, rest>>

(* with self._lock: *)
CreateLock(t) ==
    /\ pc[t] = "c_lock"
    /\ lock = NoThread
    /\ lock' = t
    /\ frame' = [frame EXCEPT ![t].size = Cardinality(projects), ![t].last = 0]
    /\ pc' = [pc EXCEPT ![t] = "c_scan"]
    /\ UNCHANGED <<store, project_locks, holders, now, req, res, wrote, nops, rest>>

(* self._validate_title_unique(project.title) *)
CreateScan(t) ==
    /\ pc[t] = "c_scan"
    /\ LET o == ScanOutcome(frame[t], req[t].body.title, 0) IN
        CASE o = "next" ->
                /\ frame' = [frame EXCEPT ![t].last = Min(IterRest(frame[t]))]
                /\ UNCHANGED <<pc, res, lock>>
          [] o = "exhausted" ->
                /\ pc' = [pc EXCEPT ![t] = "c_insert"]
                /\ UNCHANGED <<frame, res, lock>>
          [] OTHER ->
                /\ End(t, Raise(o))
                /\ lock' = NoThread
                /\ UNCHANGED frame
    /\ UNCHANGED <<store, project_locks, holders, now, req, wrote, nops, rest>>

(* a store that numbers a new project by the size of the dictionary *)
NextIdByLen == Cardinality(projects) + 1

(* the id a create takes: self._counter += 1; id=self._counter *)
NextId == counter + 1

(* self._counter += 1 ... self.projects[db_project.id] = db_project.       *)
(* The counter is advanced before Project(...) validates its fields.       *)
CreateInsert(t) ==
    /\ pc[t] = "c_insert"
    /\ counter' = NextId
    /\ lock' = NoThread
    /\ wrote' = [wrote EXCEPT ![t] = TRUE]
    /\ \E n \in Clock :
        /\ now' = n
        /\ IF ProjectValid(req[t].body, n, n, n)
           THEN /\ heap' = (NextId :> Project(NextId, req[t].body, n, n)) @@ heap
                /\ projects' = projects \cup {NextId}
                /\ frame' = Watched(projects \cup {NextId})
                /\ End(t, Return(NextId))
           ELSE /\ UNCHANGED <<heap, projects, frame>>
                /\ End(t, Raise("Fault"))
    /\ UNCHANGED <<project_locks, holders, req, nops, rest>>


(***************************************************************************)
(* GET /projects/{id}: Database.get_project                                *)
(***************************************************************************)
StartGet(t) ==
    \E id \in TargetIds :
        /\ Begin(t, [NoReq EXCEPT !.kind = "get", !.id = id],
                 id \in deleted)
        /\ pc' = [pc EXCEPT ![t] = "g_lock"]
        /\ UNCHANGED <<store, locks, now, rest>>

(* with self._lock: the whole body runs with the lock held, and nothing   *)
(* it reads is written without the lock                                    *)
GetProject(t) ==
    /\ pc[t] = "g_lock"
    /\ lock = NoThread
    /\ frame' = [frame EXCEPT ![t].seen = Seen(req[t].id)]
    /\ IF req[t].id \notin projects
       THEN End(t, Raise("NotFound"))
       ELSE End(t, Return(req[t].id))
    /\ UNCHANGED <<store, locks, now, req, wrote, nops, rest>>

(***************************************************************************)
(* DELETE /projects/{id}: Database.delete_project                          *)
(***************************************************************************)
StartDelete(t) ==
    \E id \in TargetIds :
        /\ Begin(t, [NoReq EXCEPT !.kind = "delete", !.id = id],
                 id \in deleted)
        /\ pc' = [pc EXCEPT ![t] = "d_lock"]
        /\ UNCHANGED <<store, locks, now, rest>>

(* a delete that leaves the record in the dictionary *)
RemovedNothing(S, id) == S

(* del self.projects[project_id], on the keys *)
Removed(S, id) == S \ {id}

(* del d[k] *)
DictDel(d, k) == [i \in DOMAIN d \ {k} |-> d[i]]

(* with self._lock: the lock entry of the id and the record go together *)
DeleteProject(t) ==
    /\ pc[t] = "d_lock"
    /\ lock = NoThread
    /\ IF req[t].id \notin projects
       THEN /\ End(t, Raise("NotFound"))
            /\ frame' = [frame EXCEPT ![t].seen = Seen(req[t].id)]
            /\ UNCHANGED <<projects, project_locks, wrote, deleted>>
       ELSE /\ project_locks' = DictDel(project_locks, req[t].id)
            /\ frame' = [Watched(Removed(projects, req[t].id))
                            EXCEPT ![t].seen = Seen(req[t].id)]
            /\ projects' = Removed(projects, req[t].id)
            /\ wrote' = [wrote EXCEPT ![t] = TRUE]
            /\ deleted' = deleted \cup {req[t].id}
            /\ End(t, Return(req[t].id))
    /\ UNCHANGED <<heap, counter, lock, holders, now, req, nops, pgVars>>

(***************************************************************************)
(* GET /projects: Database.get_projects                                    *)
(***************************************************************************)
Max2(a, b) == IF a > b THEN a ELSE b
Min2(a, b) == IF a < b THEN a ELSE b

(* s[start:end] *)
Slice(s, start, end) ==
    LET n == Len(s)
        lo == IF start < 0 THEN Max2(n + start, 0) ELSE Min2(start, n)
        hi == IF end < 0 THEN Max2(n + end, 0) ELSE Min2(end, n)
    IN  IF hi <= lo THEN <<>> ELSE SubSeq(s, lo + 1, hi)

(* a page count that drops the last, partly filled page *)
PageCountFloor(total, size) == total \div size

(* pages = (total + size - 1) // size *)
PageCount(total, size) == (total + size - 1) \div size

(* a page number bounded below only *)
ClampPageBelow(page, pages) == Max2(1, page)

(* page = max(1, min(page, pages)) if pages > 0 else 1 *)
ClampPage(page, pages) == IF pages > 0 THEN Max2(1, Min2(page, pages)) ELSE 1

(* the ProjectList get_projects builds from the filtered list *)
Paginate(filtered, page, size) ==
    LET total == Len(filtered)
        pages == PageCount(total, size)
        pg == ClampPage(page, pages)
        start == (pg - 1) * size
        end == start + size
    IN  [status |-> "ok", id |-> 0, items |-> Slice(filtered, start, end),
         total |-> total, page |-> pg, pages |-> pages]

(* needle in hay *)
Contains(hay, needle) ==
    \E i \in 0..(Len(hay) - Len(needle)) :
        \A k \in 1..Len(needle) : hay[i + k] = needle[k]

RECURSIVE SortedIds(_)
(* list(self.projects.values()): a dict keeps insertion order, and keys    *)
(* are inserted in increasing order                                        *)
SortedIds(S) == IF S = {} THEN <<>> ELSE <<Min(S)>> \o SortedIds(S \ {Min(S)})

(* the reads _filter_projects makes, in its order: `if status:`,          *)
(* `if priority:`, `if search:`, where the search looks at the title and   *)
(* then, if that has not matched, at the description; None and the empty   *)
(* search string filter nothing                                            *)
Filters(r) ==
    (IF r.body.status # NoneStatus THEN <<"status">> ELSE <<>>)
    \o (IF r.body.priority # NonePriority THEN <<"priority">> ELSE <<>>)
    \o (IF r.search # <<>> THEN <<"title", "description">> ELSE <<>>)

(* the condition of a list comprehension of _filter_projects, on the field *)
(* it reads                                                                *)
Matches(p, filter, r) ==
    CASE filter = "status" -> p.status = r.body.status
      [] filter = "priority" -> p.priority = r.body.priority
      [] filter = "title" -> Contains(Lower(p.title), Lower(r.search))
      [] filter = "description" -> Contains(Lower(p.description), Lower(r.search))

(* p.title.lower() and p.description.lower() raise AttributeError on None; *)
(* the description of a project is read only if its title has not matched  *)
FilterFaults(filtered, filter, r, hit) ==
    \E k \in 1..Len(filtered) :
        \/ filter = "title" /\ heap[filtered[k]].title = NoneStr
        \/ /\ filter = "description" /\ filtered[k] \notin hit
           /\ heap[filtered[k]].description = NoneStr

(* filtered = [p for p in filtered if ...]: the projects that stay after   *)
(* one read, on the values the projects have when it is made; the titles   *)
(* that match are remembered and the descriptions decide for the rest      *)
_filter_projects(filtered, filter, r, hit) ==
    CASE filter = "title" -> filtered
      [] filter = "description" ->
            SelectSeq(filtered, LAMBDA i : i \in hit \/ Matches(heap[i], filter, r))
      [] OTHER -> SelectSeq(filtered, LAMBDA i : Matches(heap[i], filter, r))

ListInputs(w) ==
    CASE w = "titles" ->
            { [NoReq EXCEPT !.kind = "list", !.page = 2, !.size = 1,
                            !.body = Body({}, NoneStr, NoneStr, MEDIUM, NoneStatus)] }
      [] w = "status" ->
            { [NoReq EXCEPT !.kind = "list", !.page = 1, !.size = 2,
                            !.body = Body({}, NoneStr, NoneStr, NonePriority, PLANNED)] }
      [] w = "fields" ->
            { [NoReq EXCEPT !.kind = "list", !.page = 0, !.size = 1,
                            !.body = Body({}, NoneStr, NoneStr, HIGH, NoneStatus),
                            !.search = <<"A", "P", "I">>] }
      [] w = "locks" ->
            { [NoReq EXCEPT !.kind = "list", !.page = 1, !.size = 1,
                            !.body = Body({}, NoneStr, NoneStr, NonePriority, PLANNED)] }
      [] w = "readers" ->
            { [NoReq EXCEPT !.kind = "list", !.page = 1, !.size = 2,
                            !.body = Body({}, NoneStr, NoneStr, MEDIUM, PLANNED)],
              [NoReq EXCEPT !.kind = "list", !.page = 1, !.size = 2,
                            !.search = <<"A", "P", "I">>] }
      [] w = "nulls" ->
            { [NoReq EXCEPT !.kind = "list", !.page = 1, !.size = 2,
                            !.search = <<"B", "C">>] }

StartList(t) ==
    \E r \in ListInputs(wl) :
        /\ Begin(t, r, FALSE)
        /\ pc' = [pc EXCEPT ![t] = "l_lock"]
        /\ UNCHANGED <<store, locks, now, rest>>

(* with self._lock: filtered = list(self.projects.values()).  With no      *)
(* filter no field of a project is read, and the page is cut at once.      *)
GetProjects(t) ==
    /\ pc[t] = "l_lock"
    /\ lock = NoThread
    /\ IF Filters(req[t]) = <<>>
       THEN /\ End(t, Paginate(SortedIds(projects), req[t].page, req[t].size))
            /\ UNCHANGED <<lock, frame>>
       ELSE /\ lock' = t
            /\ frame' = [frame EXCEPT ![t].filtered = SortedIds(projects),
                                      ![t].todo = Filters(req[t]),
                                      ![t].heaps = {heap}]
            /\ pc' = [pc EXCEPT ![t] = "l_filter"]
            /\ UNCHANGED res
    /\ UNCHANGED <<store, project_locks, holders, now, req, wrote, nops, rest>>

(* one read of _filter_projects, under self._lock; after the last one:    *)
(* count, clamp the page, slice                                            *)
FilterProjects(t) ==
    /\ pc[t] = "l_filter"
    /\ LET filter == Head(frame[t].todo)
           filtered == _filter_projects(frame[t].filtered, filter, req[t], frame[t].hit)
           hit == IF filter = "title"
                  THEN {frame[t].filtered[k] : k \in
                          {j \in 1..Len(frame[t].filtered) :
                              Matches(heap[frame[t].filtered[j]], filter, req[t])}}
                  ELSE frame[t].hit
       IN  IF FilterFaults(frame[t].filtered, filter, req[t], frame[t].hit)
           THEN /\ End(t, Raise("Fault"))
                /\ lock' = NoThread
                /\ UNCHANGED frame
           ELSE IF Tail(frame[t].todo) = <<>>
                THEN /\ frame' = [frame EXCEPT ![t].filtered = filtered, ![t].hit = {},
                                               ![t].todo = <<>>, ![t].heaps = {}]
                     /\ End(t, Paginate(filtered, req[t].page, req[t].size))
                     /\ lock' = NoThread
                ELSE /\ frame' = [frame EXCEPT ![t].filtered = filtered, ![t].hit = hit,
                                               ![t].todo = Tail(@)]
                     /\ UNCHANGED <<pc, res, lock>>
    /\ UNCHANGED <<store, project_locks, holders, now, req, wrote, nops, rest>>

(***************************************************************************)
(* PUT /projects/{id}: the request body is validated as a ProjectUpdate,   *)
(* then Database.update_project runs.                                      *)
(***************************************************************************)
StartUpdate(t) ==
    \E id \in TargetIds, b \in UpdateBodies(wl) :
        /\ Begin(t, [NoReq EXCEPT !.kind = "update", !.id = id, !.raw = b,
                                   !.body = IF ProjectUpdateValid(b)
                                            THEN ProjectUpdate(b) ELSE NoBody],
                 id \in deleted)
        /\ IF ProjectUpdateValid(b)
           THEN pc' = [pc EXCEPT ![t] = "u_lock"]
           ELSE pc' = [pc EXCEPT ![t] = "rejected"]
        /\ UNCHANGED <<store, locks, now, rest>>

(* _get_project_lock: with self._lock: *)
UpdateLock(t) ==
    /\ pc[t] = "u_lock"
    /\ lock = NoThread
    /\ lock' = t
    /\ pc' = [pc EXCEPT ![t] = "u_getlock"]
    /\ UNCHANGED <<store, project_locks, holders, now, req, frame, res, wrote, nops, rest>>

(* a _get_project_lock that hands the per-record lock out with self._lock *)
(* still held                                                              *)
UpdateGetLockHeld(t) ==
    /\ pc[t] = "u_getlock"
    /\ IF req[t].id \in DOMAIN project_locks
       THEN /\ frame' = [frame EXCEPT ![t].lk = project_locks[req[t].id]]
            /\ UNCHANGED <<project_locks, holders>>
       ELSE /\ holders' = Append(holders, NoThread)
            /\ project_locks' = (req[t].id :> Len(holders) + 1) @@ project_locks
            /\ frame' = [frame EXCEPT ![t].lk = Len(holders) + 1]
    /\ pc' = [pc EXCEPT ![t] = "u_acquire"]
    /\ UNCHANGED <<store, lock, now, req, res, wrote, nops, rest>>

(* _get_project_lock: a new threading.Lock() unless the id has one *)
UpdateGetLock(t) ==
    /\ pc[t] = "u_getlock"
    /\ lock' = NoThread
    /\ IF req[t].id \in DOMAIN project_locks
       THEN /\ frame' = [frame EXCEPT ![t].lk = project_locks[req[t].id]]
            /\ UNCHANGED <<project_locks, holders>>
       ELSE /\ holders' = Append(holders, NoThread)
            /\ project_locks' = (req[t].id :> Len(holders) + 1) @@ project_locks
            /\ frame' = [frame EXCEPT ![t].lk = Len(holders) + 1]
    /\ pc' = [pc EXCEPT ![t] = "u_acquire"]
    /\ UNCHANGED <<store, now, req, res, wrote, nops, rest>>

(* with project_lock: *)
UpdateAcquire(t) ==
    /\ pc[t] = "u_acquire"
    /\ holders[frame[t].lk] = NoThread
    /\ holders' = [holders EXCEPT ![frame[t].lk] = t]
    /\ pc' = [pc EXCEPT ![t] = "u_check"]
    /\ UNCHANGED <<store, lock, project_locks, now, req, frame, res, wrote, nops, rest>>

(* a with block that keeps its lock when it is left *)
ReleasedNever(t) == holders

(* leaving the with block, by return or by an exception *)
Released(t) == [holders EXCEPT ![frame[t].lk] = NoThread]

(* if project_id not in self.projects: raise ProjectNotFoundError *)
UpdateCheck(t) ==
    /\ pc[t] = "u_check"
    /\ frame' = [frame EXCEPT ![t].seen = Seen(req[t].id), ![t].views = {projects}]
    /\ IF req[t].id \notin projects
       THEN /\ End(t, Raise("NotFound"))
            /\ holders' = Released(t)
       ELSE /\ pc' = [pc EXCEPT ![t] = "u_load"]
            /\ UNCHANGED <<res, holders>>
    /\ UNCHANGED <<store, lock, project_locks, now, req, wrote, nops, rest>>

(* db_project = self.projects[project_id]: KeyError when the key has gone; *)
(* update_data = project.model_dump(exclude_unset=True)                    *)
UpdateLoad(t) ==
    /\ pc[t] = "u_load"
    /\ IF req[t].id \notin projects
       THEN /\ End(t, Raise("Fault"))
            /\ holders' = Released(t)
            /\ UNCHANGED frame
       ELSE /\ frame' = [frame EXCEPT ![t].ref = req[t].id,
                                      ![t].pre = heap[req[t].id],
                                      ![t].todo = model_dump(req[t].body)]
            /\ pc' = [pc EXCEPT ![t] = IF "title" \in req[t].body.keys
                                        THEN "u_iter" ELSE "u_status"]
            /\ UNCHANGED <<res, holders>>
    /\ UNCHANGED <<store, lock, project_locks, now, req, wrote, nops, rest>>

(* for project in self.projects.values(): the iterator is made *)
UpdateIter(t) ==
    /\ pc[t] = "u_iter"
    /\ frame' = [frame EXCEPT ![t].size = Cardinality(projects), ![t].last = 0]
    /\ pc' = [pc EXCEPT ![t] = "u_scan"]
    /\ UNCHANGED <<store, locks, now, req, res, wrote, nops, rest>>

(* self._validate_title_unique(update_data['title'], project_id), without  *)
(* self._lock                                                              *)
UpdateScan(t) ==
    /\ pc[t] = "u_scan"
    /\ LET o == ScanOutcome(frame[t], req[t].body.title, req[t].id) IN
        CASE o = "next" ->
                /\ frame' = [frame EXCEPT ![t].last = Min(IterRest(frame[t])),
                                          ![t].cmp = @ \cup {Min(IterRest(frame[t]))}]
                /\ UNCHANGED <<pc, res, holders>>
          [] o = "exhausted" ->
                /\ pc' = [pc EXCEPT ![t] = "u_status"]
                /\ frame' = [frame EXCEPT ![t].cmp = {}, ![t].views = {}]
                /\ UNCHANGED <<res, holders>>
          [] OTHER ->
                /\ End(t, Raise(o))
                /\ holders' = Released(t)
                /\ frame' = [frame EXCEPT ![t].cmp = {}, ![t].views = {}]
    /\ UNCHANGED <<store, lock, project_locks, now, req, wrote, nops, rest>>

(* a check that lets the current status be supplied again *)
StatusRefusedUnlessSame(current_status, new_status) ==
    /\ new_status # current_status
    /\ new_status \notin get_valid_transitions(current_status)

(* new_status not in ProjectStatus.get_valid_transitions(current_status) *)
StatusRefused(current_status, new_status) ==
    new_status \notin get_valid_transitions(current_status)

(* the status check; with nothing to set the loop over update_data is     *)
(* empty and updated_at comes next                                         *)
UpdateStatus(t) ==
    /\ pc[t] = "u_status"
    /\ IF "status" \in req[t].body.keys
       THEN /\ frame' = [frame EXCEPT ![t].cur = heap[frame[t].ref].status]
            /\ IF StatusRefused(heap[frame[t].ref].status, req[t].body.status)
               THEN /\ End(t, Raise("InvalidStatusTransition"))
                    /\ holders' = Released(t)
               ELSE /\ pc' = [pc EXCEPT ![t] = "u_apply"]
                    /\ UNCHANGED <<res, holders>>
       ELSE /\ pc' = [pc EXCEPT ![t] = IF frame[t].todo = <<>>
                                        THEN "u_stamp" ELSE "u_apply"]
            /\ UNCHANGED <<frame, res, holders>>
    /\ UNCHANGED <<store, lock, project_locks, now, req, wrote, nops, rest>>

(* the fields one turn of `for field, value in update_data.items()` sets *)
Applied(todo) == <<Head(todo)>>

(* setattr(db_project, field, value), one field a turn *)
UpdateApply(t) ==
    /\ pc[t] = "u_apply"
    /\ LET h == [heap EXCEPT ![frame[t].ref] =
                    SetAttr(@, Applied(frame[t].todo)[1],
                            FieldOf(req[t].body, Applied(frame[t].todo)[1]))]
       IN  /\ heap' = h
           /\ frame' = [WatchedHeap(h) EXCEPT ![t].todo = Tail(@)]
    /\ wrote' = [wrote EXCEPT ![t] = TRUE]
    /\ pc' = [pc EXCEPT ![t] = IF Tail(frame[t].todo) = <<>> THEN "u_stamp" ELSE "u_apply"]
    /\ UNCHANGED <<projects, counter, locks, now, req, res, nops, rest>>

(* db_project.updated_at = datetime.now(); return db_project *)
UpdateStamp(t) ==
    /\ pc[t] = "u_stamp"
    /\ \E n \in Clock :
        /\ now' = n
        /\ heap' = [heap EXCEPT ![frame[t].ref] = SetAttr(@, "updated_at", n)]
    /\ wrote' = [wrote EXCEPT ![t] = TRUE]
    /\ holders' = Released(t)
    /\ End(t, Return(frame[t].ref))
    /\ UNCHANGED <<projects, counter, lock, project_locks, req, frame, nops, rest>>

(***************************************************************************)
(* The store under concurrent callers.                                     *)
(***************************************************************************)
Next ==
    \/ \E t \in Threads :
        \/ StartCreate(t) \/ Reject(t) \/ CreateLock(t) \/ CreateScan(t) \/ CreateInsert(t)
        \/ StartGet(t) \/ GetProject(t)
        \/ StartDelete(t) \/ DeleteProject(t)
        \/ StartList(t) \/ GetProjects(t) \/ FilterProjects(t)
        \/ StartUpdate(t) \/ UpdateLock(t) \/ UpdateGetLock(t) \/ UpdateAcquire(t)
        \/ UpdateCheck(t) \/ UpdateLoad(t) \/ UpdateIter(t) \/ UpdateScan(t)
        \/ UpdateStatus(t) \/ UpdateApply(t) \/ UpdateStamp(t)

Spec == Init /\ [][Next]_vars
SpecTitles == InitStore("titles") /\ [][Next]_vars
SpecStatus == InitStore("status") /\ [][Next]_vars
SpecFields == InitStore("fields") /\ [][Next]_vars
SpecReaders == InitStore("readers") /\ [][Next]_vars
SpecNulls == InitStore("nulls") /\ [][Next]_vars

(* what thread t does once its operation has started *)
Run(t) ==
    \/ Reject(t) \/ CreateLock(t) \/ CreateScan(t) \/ CreateInsert(t)
    \/ GetProject(t) \/ DeleteProject(t) \/ GetProjects(t) \/ FilterProjects(t)
    \/ UpdateLock(t) \/ UpdateGetLock(t) \/ UpdateAcquire(t)
    \/ UpdateCheck(t) \/ UpdateLoad(t) \/ UpdateIter(t) \/ UpdateScan(t)
    \/ UpdateStatus(t) \/ UpdateApply(t) \/ UpdateStamp(t)

(* fair scheduling: a thread that can take its next step, and stays able   *)
(* to, takes it                                                            *)
SpecLocks == InitStore("locks") /\ [][Next]_vars /\ \A t \in Threads : WF_vars(Run(t))

(***************************************************************************)
(* get_projects alone, on every length of the filtered list, page and size *)
(***************************************************************************)
Matched(total) == [i \in 1..total |-> i]

PageCall ==
    /\ pgOut.status = "none"
    /\ pgOut' = Paginate(Matched(pgIn.total), pgIn.page, pgIn.size)
    /\ UNCHANGED <<store, locks, now, pc, req, frame, res, wrote, nops, deleted, wl, pgIn>>

PageNext == PageCall

SpecPage == InitPage /\ [][PageNext]_vars


(***************************************************************************)
(* Properties.                                                             *)
(***************************************************************************)
Done(t) == pc[t] = "idle" /\ res[t].status # "none"
Live == projects

(* C1: in every reachable state no two live projects have titles that are  *)
(* equal when compared case-insensitively.                                 *)
C1_TitlesUnique ==
    \A i \in Live : \A j \in Live :
        i # j /\ heap[i].title # NoneStr /\ heap[j].title # NoneStr
            => Lower(heap[i].title) # Lower(heap[j].title)


(* a step in which thread t leaves the place `at` of its operation *)
Leaves(t, at) == pc[t] = at /\ pc'[t] # at

(* a live project holds the title, compared case-insensitively *)
TitleTaken(title) ==
    \E i \in Live : heap[i].title # NoneStr /\ Lower(heap[i].title) = Lower(title)

(* C2: a create whose title equals, case-insensitively, the title of a     *)
(* live project fails with DuplicateTitle, so no create returns a project  *)
(* while a live project holds its title; once the colliding project has    *)
(* been deleted, a create with that title succeeds.                        *)
C2_DuplicateCreateFails ==
    [][\A t \in Threads :
        /\ Leaves(t, "c_insert") /\ TitleTaken(req[t].body.title)
              => res'[t].status # "ok"
        /\ (Leaves(t, "c_insert") /\ ~TitleTaken(req[t].body.title)
              /\ \E i \in deleted : Lower(heap[i].title) = Lower(req[t].body.title))
              => res'[t].status = "ok"]_vars

(* C3: a successful create returns an id the store never assigned before,  *)
(* deleted projects included, and the id counter never decreases.          *)
C3_IdsNeverReused ==
    [][/\ counter' >= counter
       /\ \A t \in Threads :
            Leaves(t, "c_insert") /\ res'[t].status = "ok"
                => /\ res'[t].id \notin 1..counter
                   /\ res'[t].id \notin DOMAIN heap
                   /\ res'[t].id \in projects']_vars

(* C3 witness: a create has returned an id while a project with a smaller  *)
(* id had been deleted.                                                    *)
C3_Witness ==
    \E t \in Threads :
        /\ Done(t) /\ req[t].kind = "create" /\ res[t].status = "ok"
        /\ \E i \in deleted : i < res[t].id

StatusGraph ==
    {<<PLANNED, IN_PROGRESS>>, <<PLANNED, CANCELLED>>,
     <<IN_PROGRESS, COMPLETED>>, <<IN_PROGRESS, CANCELLED>>}

(* C4: every change of the status of a project follows an edge of the      *)
(* status graph, so a COMPLETED or CANCELLED project keeps its status.     *)
C4_StatusFollowsGraph ==
    [][\A i \in DOMAIN heap :
        /\ i \in DOMAIN heap'
        /\ heap'[i].status # heap[i].status
              => <<heap[i].status, heap'[i].status>> \in StatusGraph]_vars

(* C4 witness: an update has taken a project from IN_PROGRESS to COMPLETED *)
C4_Witness ==
    \E t \in Threads :
        /\ Done(t) /\ req[t].kind = "update" /\ res[t].status = "ok"
        /\ frame[t].cur = IN_PROGRESS
        /\ heap[frame[t].ref].status = COMPLETED

(* C5: an update that reaches the status check passes it exactly when the  *)
(* supplied status is an allowed transition of the current status, and     *)
(* fails with InvalidStatusTransition otherwise: PLANNED->CANCELLED        *)
(* passes, IN_PROGRESS->PLANNED, the current status again and every status *)
(* on a COMPLETED or CANCELLED project fail.                               *)
C5_StatusCheck ==
    \A t \in Threads :
        Done(t) /\ req[t].kind = "update" /\ frame[t].cur # NoneStatus
            => LET edge == <<frame[t].cur, req[t].body.status>> IN
               /\ edge \in StatusGraph => res[t].status = "ok"
               /\ edge \notin StatusGraph => res[t].status = "InvalidStatusTransition"
               /\ edge = <<PLANNED, CANCELLED>> => res[t].status = "ok"
               /\ edge = <<IN_PROGRESS, PLANNED>> => res[t].status # "ok"
               /\ frame[t].cur = req[t].body.status => res[t].status # "ok"
               /\ frame[t].cur \in {COMPLETED, CANCELLED} => res[t].status # "ok"

(* C5 witness: one update went PLANNED->CANCELLED, another was refused on  *)
(* the cancelled project.                                                  *)
C5_Witness ==
    \E t, u \in Threads :
        /\ Done(t) /\ req[t].kind = "update" /\ res[t].status = "ok"
        /\ frame[t].cur = PLANNED /\ req[t].body.status = CANCELLED
        /\ Done(u) /\ req[u].kind = "update"
        /\ res[u].status = "InvalidStatusTransition" /\ frame[u].cur = CANCELLED


(* thread t takes a step *)
Steps(t) == pc'[t] # pc[t] \/ frame'[t] # frame[t]

(* C6: a successful update changes only the fields its body supplies:      *)
(* every other field of title, description, priority and status keeps the  *)
(* value it had, id and created_at keep theirs, updated_at becomes the     *)
(* time read, and no other project is touched.                             *)
C6_UpdateIsPartial ==
    [][\A t \in Threads :
        /\ pc[t] \in {"u_apply", "u_stamp"} /\ Steps(t)
              => /\ projects' = projects /\ counter' = counter
                 /\ DOMAIN heap' = DOMAIN heap
                 /\ \A i \in DOMAIN heap \ {frame[t].ref} : heap'[i] = heap[i]
        /\ Leaves(t, "u_stamp") /\ res'[t].status = "ok"
              => LET p == heap'[frame[t].ref]
                     q == frame[t].pre
                     b == req[t].body
                 IN  /\ \A f \in FieldSet \ b.keys : FieldOf(p, f) = FieldOf(q, f)
                     /\ \A f \in FieldSet \cap b.keys : FieldOf(p, f) = FieldOf(b, f)
                     /\ p.id = q.id /\ p.created_at = q.created_at
                     /\ p.updated_at = now']_vars

(* C6 witness: an update of the description alone has returned; the        *)
(* description changed, the title did not, updated_at advanced.            *)
C6_Witness ==
    \E t \in Threads :
        /\ Done(t) /\ req[t].kind = "update" /\ res[t].status = "ok"
        /\ req[t].body.keys = {"description"}
        /\ heap[frame[t].ref].description # frame[t].pre.description
        /\ heap[frame[t].ref].title = frame[t].pre.title
        /\ heap[frame[t].ref].updated_at > frame[t].pre.updated_at

(* C7: an update whose body supplies id or created_at is rejected with a   *)
(* validation error: it is never accepted with those keys ignored.         *)
C7_ImmutableKeysRejected ==
    \A t \in Threads :
        (/\ Done(t) /\ req[t].kind = "update"
         /\ req[t].raw.keys \cap {"id", "created_at"} # {})
            => res[t].status # "ok"

(* C8: get, update and delete of an id that is not live fail with          *)
(* NotFound; an operation on an id that starts after the delete of that id *)
(* has returned fails with NotFound, and a deleted id is never live again. *)
C8_DeletedStaysGone ==
    /\ deleted \cap Live = {}
    /\ \A t \in Threads :
        (/\ Done(t) /\ req[t].kind \in {"get", "update", "delete"}
         /\ res[t].status # "ValidationError"
         /\ frame[t].dead \/ frame[t].seen = "absent")
            => res[t].status = "NotFound"

(* C8 witness: a get that started after the delete of its id had returned  *)
(* ended with NotFound.                                                    *)
C8_Witness ==
    \E t \in Threads :
        /\ Done(t) /\ req[t].kind = "get" /\ frame[t].dead
        /\ res[t].status = "NotFound"

(* C9: for every page and every size >= 1 list does not fail; pages is     *)
(* ceil(total/size), the page reported is the requested one clamped into   *)
(* 1..pages (1 when nothing matches), and the items are those at positions *)
(* [(page-1)*size, page*size) of the filtered list.  25 matches with size  *)
(* 10: page 3 has 5 items and page 99 is answered as page 3.               *)
C9_Pagination ==
    pgOut.status # "none" =>
        LET total == pgIn.total
            size == pgIn.size
            pages == pgOut.pages
            pg == pgOut.page
            first == (pg - 1) * size
        IN  /\ pgOut.status = "ok"
            /\ pgOut.total = total
            /\ pages * size >= total /\ (pages - 1) * size < total
            /\ pages = 0 => pg = 1
            /\ pages > 0 => /\ pg \in 1..pages
                            /\ pgIn.page \in 1..pages => pg = pgIn.page
                            /\ pgIn.page < 1 => pg = 1
                            /\ pgIn.page > pages => pg = pages
            /\ Len(pgOut.items) =
                  Cardinality({i \in 1..total : first < i /\ i <= first + size})
            /\ \A k \in 1..Len(pgOut.items) : pgOut.items[k] = Matched(total)[first + k]
            /\ (total = 25 /\ size = 10 /\ pgIn.page = 3) => Len(pgOut.items) = 5
            /\ (total = 25 /\ size = 10 /\ pgIn.page = 99)
                  => pg = 3 /\ Len(pgOut.items) = 5

(* C9 witness: page 99 of 25 matches with size 10 came back as page 3 with *)
(* 5 items.                                                                *)
C9_Witness ==
    /\ pgIn = [total |-> 25, page |-> 99, size |-> 10]
    /\ pgOut.status = "ok" /\ pgOut.page = 3 /\ Len(pgOut.items) = 5

(* C10: an operation that ends with an error has changed nothing: not the  *)
(* live set, no field of any project, not the id counter.                  *)
C10_AllOrNothing ==
    \A t \in Threads : Done(t) /\ res[t].status \in Errors => ~wrote[t]


(* the locks thread t holds *)
HoldsCoarse(t) == lock = t
HoldsRecord(t) == \E k \in 1..Len(holders) : holders[k] = t

(* thread t is inside an operation and cannot take its next step *)
Waits(t) == pc[t] # "idle" /\ ~ENABLED Run(t)

(* C11: no operation blocks indefinitely.  Under fair scheduling no state  *)
(* is reached in which operations are under way and none can take a step,  *)
(* every started operation returns, with a result or an error, and a       *)
(* thread that has returned holds neither the coarse lock nor a per-record *)
(* lock, whichever way the operation ended.                                *)
C11_NoOperationBlocks ==
    /\ [](\A t \in Threads : pc[t] = "idle" => ~HoldsCoarse(t) /\ ~HoldsRecord(t))
    /\ []((\E t \in Threads : pc[t] # "idle") => \E t \in Threads : ~Waits(t) /\ pc[t] # "idle")
    /\ \A t \in Threads : (pc[t] # "idle") ~> Done(t)

(* thread t is inside the with block of the per-record lock *)
InSection(t) ==
    pc[t] \in {"u_check", "u_load", "u_iter", "u_scan", "u_status", "u_apply", "u_stamp"}

(* C12: updates of one record are serialized.  Whatever creates and        *)
(* deletes run beside them, at most one update of a project id is inside   *)
(* its per-record locked section, from the existence check to the setting  *)
(* of updated_at.                                                          *)
C12_UpdatesSerialized ==
    \A t \in Threads : \A u \in Threads \ {t} :
        InSection(t) /\ InSection(u) => req[t].id # req[u].id

(* C13: an update does not hold the coarse lock while it validates and    *)
(* mutates its record.  While an update of id A is inside its per-record   *)
(* locked section, the other thread, running an update of another id or a  *)
(* list, get, create or delete, can start any operation and take every     *)
(* step of the one it runs: it never waits for the update of A.            *)
C13_UpdateLeavesOthersFree ==
    \A t \in Threads :
        InSection(t) =>
            /\ ~HoldsCoarse(t)
            /\ \A u \in Threads \ {t} :
                /\ (pc[u] = "idle" /\ nops < MaxOps) =>
                        /\ ENABLED StartUpdate(u) /\ ENABLED StartList(u)
                        /\ ENABLED StartGet(u) /\ ENABLED StartCreate(u)
                        /\ ENABLED StartDelete(u)
                /\ (pc[u] # "idle"
                      /\ ~(req[u].kind = "update" /\ req[u].id = req[t].id)) =>
                        ENABLED Run(u)

(* C13 witness: two updates, of different live ids, are inside their       *)
(* locked sections at once: one is about to set updated_at, the other is   *)
(* comparing titles.                                                       *)
C13_Witness ==
    \E t \in Threads : \E u \in Threads \ {t} :
        /\ pc[t] = "u_stamp" /\ pc[u] = "u_scan"
        /\ req[t].id # req[u].id /\ {req[t].id, req[u].id} \subseteq Live

(* C14: the uniqueness scan of an update sees the live set consistently.  *)
(* The scan does not fault because the dictionary changed under it, and    *)
(* when it has passed every project the projects it compared are the live  *)
(* set of one instant of the update, whatever creates and deletes ran      *)
(* beside it.                                                              *)
C14_ScanIsConsistent ==
    [][\A t \in Threads :
        Leaves(t, "u_scan") =>
            /\ res'[t].status # "Fault"
            /\ pc'[t] = "u_status" => frame[t].cmp \in frame[t].views]_vars

(* C15: per-record locks exist only for live records.  Whenever every     *)
(* operation that was started has returned, each id with an entry in the   *)
(* lock table is the id of a live project: delete takes the entry away     *)
(* with the record, and an update of an absent or deleted id leaves none.  *)
C15_LocksOnlyForLive ==
    (\A t \in Threads : pc[t] = "idle") => DOMAIN project_locks \subseteq Live

(* another live project holds the title thread t supplies *)
TitleOfAnother(t) ==
    \E i \in Live \ {req[t].id} :
        heap[i].title # NoneStr /\ Lower(heap[i].title) = Lower(req[t].body.title)

(* C16: an update that supplies a title fails with DuplicateTitle exactly  *)
(* when another live project, one with a different id, has that title,     *)
(* compared case-insensitively: the uniqueness check is not passed while  *)
(* there is such a project, and DuplicateTitle is not raised while there   *)
(* is none; the title of the project itself, in any letter case, is no     *)
(* conflict.                                                               *)
C16_DuplicateExactly ==
    [][\A t \in Threads :
        Leaves(t, "u_scan") =>
            /\ TitleOfAnother(t) => pc'[t] # "u_status"
            /\ ~TitleOfAnother(t) => res'[t].status # "DuplicateTitle"]_vars

Satisfies(p, r) ==
    /\ r.body.status # NoneStatus => p.status = r.body.status
    /\ r.body.priority # NonePriority => p.priority = r.body.priority
    /\ r.search # <<>> => \/ Contains(Lower(p.title), Lower(r.search))
                          \/ Contains(Lower(p.description), Lower(r.search))

(* the live projects that satisfy the filters of r when the records are h *)
Selected(h, r) == {i \in Live : Satisfies(h[i], r)}

(* the elements of a sequence *)
Range(q) == {q[k] : k \in 1..Len(q)}

(* C18: before it cuts the page, list has exactly the live projects that   *)
(* satisfy every filter supplied: the status and the priority equal to the *)
(* filter, the search text a substring of the title or of the description, *)
(* letter case ignored; total is their number, and a filter left out       *)
(* excludes nothing.  The projects are those of one state of the records   *)
(* during the call.                                                        *)
C18_ListIsExact ==
    [][\A t \in Threads :
        (pc[t] \in {"l_lock", "l_filter"} /\ res'[t].status = "ok") =>
            LET found == IF pc[t] = "l_lock" THEN SortedIds(projects)
                         ELSE frame'[t].filtered
            IN  /\ res'[t].total = Len(found)
                /\ \E h \in frame[t].heaps \cup {heap} :
                        Range(found) = Selected(h, req[t])]_vars

(* C19: every title stored in a live project, sanitized by create or by   *)
(* update, has between 3 and 100 characters, and a request whose title is  *)
(* empty once sanitized is rejected with a validation error.               *)
C19_StoredTitleLength ==
    /\ \A i \in Live :
          heap[i].title # NoneStr =>
              Len(heap[i].title) >= MinTitleLen /\ Len(heap[i].title) <= MaxTitleLen
    /\ \A t \in Threads :
          (/\ Done(t) /\ req[t].kind \in {"create", "update"}
           /\ "title" \in req[t].raw.keys /\ req[t].raw.title # NoneStr
           /\ SanitizeTitle(req[t].raw.title) = <<>>)
              => res[t].status = "ValidationError"

(* an update of several fields by thread u is under way on project i, and *)
(* some but not all of it shows: a supplied field no longer has the value  *)
(* the update found                                                        *)
Torn(i, u) ==
    /\ pc[u] \in {"u_apply", "u_stamp"} /\ frame[u].ref = i
    /\ Cardinality(req[u].body.keys) > 1
    /\ \E f \in req[u].body.keys : FieldOf(heap[i], f) # FieldOf(frame[u].pre, f)

(* C20: an update is atomic for readers.  The project a get returns, and   *)
(* every project on the page a list returns, shows an update of several    *)
(* fields that runs beside the reader with none of its fields changed, or, *)
(* once the update has set updated_at, with all of them: never with only   *)
(* some.                                                                   *)
C20_ReadersSeeWholeUpdates ==
    [][\A t \in Threads : \A u \in Threads \ {t} :
        /\ (pc[t] = "g_lock" /\ res'[t].status = "ok") => ~Torn(req[t].id, u)
        /\ (pc[t] \in {"l_lock", "l_filter"} /\ res'[t].status = "ok") =>
                \A k \in 1..Len(res'[t].items) : ~Torn(res'[t].items[k], u)]_vars

(* C11 witness: an update has ended with an error and set its per-record   *)
(* lock free, and the other thread, which waited for that lock, can take   *)
(* it.                                                                     *)
C11_Witness ==
    \E t, u \in Threads :
        /\ Done(t) /\ req[t].kind = "update" /\ res[t].status \in Errors
        /\ pc[u] = "u_acquire" /\ frame[u].lk = frame[t].lk
        /\ holders[frame[u].lk] = NoThread

(* the create of thread t ends in this step, with a project or an error *)
CreateEnds(t) == pc[t] \in {"c_scan", "c_insert"} /\ pc'[t] = "idle"

(* thread u runs a create beside that of thread t, with a title equal to   *)
(* t's when letter case is ignored, and waits for self._lock, which t      *)
(* holds                                                                   *)
Rival(t, u) ==
    /\ u # t /\ lock = t /\ pc[u] = "c_lock" /\ req[u].kind = "create"
    /\ Lower(req[u].body.title) = Lower(req[t].body.title)

(* the create of thread u has returned a project that is live and holds    *)
(* the title, letter case ignored                                          *)
Won(u, title) ==
    /\ pc[u] = "idle" /\ req[u].kind = "create" /\ res[u].status = "ok"
    /\ res[u].id \in Live /\ heap[res[u].id].title # NoneStr
    /\ Lower(heap[res[u].id].title) = Lower(title)

(* C21: of two creates that run side by side with titles equal when letter *)
(* case is ignored, while no live project has the title, exactly one       *)
(* returns a project and the other fails with DuplicateTitle: the create   *)
(* that holds self._lock first succeeds, and the create that comes after   *)
(* it finds the project of the first.                                      *)
C21_OneCreateWins ==
    [][\A t \in Threads : \A u \in Threads \ {t} :
        /\ (CreateEnds(t) /\ Rival(t, u) /\ ~TitleTaken(req[t].body.title))
              => res'[t].status = "ok"
        /\ (CreateEnds(t) /\ Won(u, req[t].body.title))
              => res'[t].status = "DuplicateTitle"]_vars

(* the same for the titles a project can hold: those that still have their *)
(* 3 characters once sanitized                                             *)
OneStorableCreateWins ==
    [][\A t \in Threads : \A u \in Threads \ {t} :
        /\ (/\ CreateEnds(t) /\ Rival(t, u) /\ ~TitleTaken(req[t].body.title)
            /\ TitleLenOk(req[t].body.title))
              => res'[t].status = "ok"
        /\ (CreateEnds(t) /\ Won(u, req[t].body.title))
              => res'[t].status = "DuplicateTitle"]_vars

(* both creates of such a pair have ended: one with a project, one with    *)
(* DuplicateTitle                                                          *)
BothCreatesEnded ==
    \E t \in Threads : \E u \in Threads \ {t} :
        /\ Won(u, req[t].body.title)
        /\ Done(t) /\ req[t].kind = "create" /\ res[t].status = "DuplicateTitle"

(* no operation is under way *)
Quiet == \A t \in Threads : pc[t] = "idle"

(* C22: after any sequence of operations, updates whose body supplies an   *)
(* explicit null for title, description, priority or status included,      *)
(* every live project has a title and a description that are not null, a   *)
(* priority among HIGH, MEDIUM, LOW and a status among PLANNED,            *)
(* IN_PROGRESS, COMPLETED, CANCELLED.                                      *)
C22_FieldsNeverNull ==
    Quiet =>
        \A i \in Live :
            /\ heap[i].title # NoneStr
            /\ heap[i].description # NoneStr
            /\ heap[i].priority \in Priorities
            /\ heap[i].status \in Statuses

(* the part of it that the checks of update_project keep: a null title     *)
(* ends the uniqueness scan with an error and a null status is no          *)
(* transition of any status, so neither is ever stored                     *)
TitleAndStatusNeverNull ==
    \A i \in Live : heap[i].title # NoneStr /\ heap[i].status \in Statuses

RECURSIVE PagesJoined(_, _, _)
(* the items of the pages 1..n that list returns for the filtered list and *)
(* the size, one after the other                                           *)
PagesJoined(filtered, size, n) ==
    IF n = 0 THEN <<>>
    ELSE PagesJoined(filtered, size, n - 1) \o Paginate(filtered, n, size).items

(* the ids of a sequence increase: creation order, and nothing twice *)
Ascending(q) == \A j \in 1..Len(q) : \A k \in 1..Len(q) : j < k => q[j] < q[k]

(* the pages 1..pages of the filtered list partition it *)
PagesPartition(filtered, size) ==
    LET pages == Paginate(filtered, 1, size).pages
        items(p) == Paginate(filtered, p, size).items
    IN  /\ PagesJoined(filtered, size, pages) = filtered
        /\ Ascending(PagesJoined(filtered, size, pages))
        /\ \A p \in 1..pages :
              /\ Paginate(filtered, p, size).page = p
              /\ Paginate(filtered, p, size).pages = pages
              /\ p < pages => Len(items(p)) = size
              /\ p = pages => Len(items(p)) >= 1 /\ Len(items(p)) <= size

(* C23: for one state of the store, one set of filters and one size >= 1,  *)
(* the pages 1..pages that list returns partition the filtered projects:   *)
(* one after the other they give every matching project exactly once, in   *)
(* ascending id order; every page but the last has exactly size items and  *)
(* the last page has between 1 and size items.  The page a call returned   *)
(* is the page of that number in the partition.                            *)
C23_PagesPartition ==
    pgOut.status = "ok" =>
        /\ PagesPartition(Matched(pgIn.total), pgIn.size)
        /\ pgOut = Paginate(Matched(pgIn.total), pgOut.page, pgIn.size)

(* C23 witness: the call returned the last of three pages, 5 of 25 matches *)
(* with size 10, after two full pages.                                     *)
C23_Witness ==
    /\ pgOut.status = "ok" /\ pgIn.total = 25 /\ pgIn.size = 10
    /\ pgOut.pages = 3 /\ pgOut.page = 3 /\ pgIn.page = 3
    /\ Len(pgOut.items) = 5
    /\ Len(Paginate(Matched(25), 1, 10).items) = 10
    /\ Len(Paginate(Matched(25), 2, 10).items) = 10

(* the same on the store: the list a call of get_projects has filtered     *)
(* when it cuts its page is in ascending id order and its pages partition  *)
(* it                                                                      *)
ListPagesPartition ==
    [][\A t \in Threads :
        (pc[t] \in {"l_lock", "l_filter"} /\ res'[t].status = "ok") =>
            LET found == IF pc[t] = "l_lock" THEN SortedIds(projects)
                         ELSE frame'[t].filtered
            IN  /\ Ascending(found)
                /\ PagesPartition(found, req[t].size)
                /\ res'[t] = Paginate(found, res'[t].page, req[t].size)]_vars

====
